---- MODULE Spec2Model ----
(***************************************************************************)
(* Model of the Lorenz attractor visualizer: the RK4 solver with its       *)
(* trajectory buffer (include/lorenz_solver.h), the orbit camera           *)
(* (src/camera.cpp) and the frame loop with its input and GUI callbacks    *)
(* (src/main.cpp).                                                         *)
(*                                                                         *)
(* Numbers.  The program computes in IEEE-754 single precision.  Here a    *)
(* float is a fixed-point number: the integer n stands for n / Scale, and  *)
(* a product or quotient is rounded to the nearest unit, as a float        *)
(* operation rounds to the nearest representable value.  A result beyond   *)
(* the largest finite value FMax overflows to an infinity, and the         *)
(* undefined forms (0 * inf, inf - inf, 0 / 0) give NaN, as in IEEE-754.   *)
(* The camera's sums of angles and distances are exact: the values it is   *)
(* driven with stay far inside the finite range.                           *)
(***************************************************************************)
EXTENDS Integers, Sequences, FiniteSets, TLC

VARIABLES
    solver,     \* the LorenzSolver object: sigma_, rho_, beta_, state_, trajectory_
    camera,     \* the Camera object (g_state.camera)
    g_state,    \* the AppState fields the frame loop reads
    pc,         \* position of main(): "while", "poll", "update", "render", "gui",
                \* "done"; "api" when the objects are driven call by call
    i,          \* the update loop's index
    shouldClose,\* the window's close flag (glfwSetWindowShouldClose)
    has_imgui,  \* whether the build defines HAS_IMGUI
    nsteps,     \* step() calls since the solver was last seeded (capped by MaxSteps)
    ncam,       \* Camera calls so far (capped by MaxCamOps)
    hist        \* history: the last call, the objects before it, the frame's calls

vars == <<solver, camera, g_state, pc, i, shouldClose, has_imgui, nsteps, ncam, hist>>

----------------------------------------------------------------------------
(* Bounds of the model *)

\* fixed-point resolution: n stands for n / Scale
Scale == 1000
\* the largest finite float, in units of 1 / Scale (FLT_MAX, scaled down)
FMax == 1000000
\* step() calls on a solver since it was last seeded
MaxSteps == 3
\* largest keep handed to clearOldest when the solver is driven call by call
MaxKeep == 3
\* Camera calls in one run
MaxCamOps == 3
\* the "Max Points" slider's range and AppState's initial max_points, scaled down
MaxPointsLo == 1
MaxPointsHi == 3
MaxPointsInit == 2
\* the "Steps/Frame" slider's upper end, scaled down
StepsPerFrameHi == 2

----------------------------------------------------------------------------
(* Float arithmetic *)

Min(a, b) == IF a < b THEN a ELSE b

\* n / d rounded to the nearest integer (d > 0)
Round(n, d) == (n + (d \div 2)) \div d

\* The non-finite floats, coded as integers outside -FMax .. FMax.
PInf == FMax + 1
NInf == 0 - (FMax + 1)
NaN == FMax + 2
IsFinite(a) == (0 - FMax) <= a /\ a <= FMax
IsInf(a) == a = PInf \/ a = NInf
Sign(a) == IF a = NaN THEN 0 ELSE IF a > 0 THEN 1 ELSE IF a < 0 THEN 0 - 1 ELSE 0
InfOf(sign) == IF sign > 0 THEN PInf ELSE NInf

\* an exact result as a float: beyond the finite range it overflows to infinity
Overflow(n) == IF n > FMax THEN PInf ELSE IF n < 0 - FMax THEN NInf ELSE n

\* the float -a
FNeg(a) == IF a = NaN THEN NaN ELSE IF a = PInf THEN NInf
           ELSE IF a = NInf THEN PInf ELSE 0 - a

\* the float a + b
FAdd(a, b) ==
    IF a = NaN \/ b = NaN THEN NaN
    ELSE IF IsInf(a) /\ IsInf(b) THEN (IF a = b THEN a ELSE NaN)
    ELSE IF IsInf(a) THEN a
    ELSE IF IsInf(b) THEN b
    ELSE Overflow(a + b)

\* the float a - b
FSub(a, b) == FAdd(a, FNeg(b))

\* a * b / Scale rounded, for finite a and b (computed in two parts so that
\* no intermediate value leaves the 32-bit integers)
MulRound(a, b) ==
    LET ah == a \div Scale
        al == a % Scale
    IN  ah * b + Round(al * b, Scale)

\* the float a * b
FMul(a, b) ==
    IF a = NaN \/ b = NaN THEN NaN
    ELSE IF IsInf(a) \/ IsInf(b)
         THEN (IF a = 0 \/ b = 0 THEN NaN ELSE InfOf(Sign(a) * Sign(b)))
    ELSE Overflow(MulRound(a, b))

\* the float a / b
FDiv(a, b) ==
    IF a = NaN \/ b = NaN THEN NaN
    ELSE IF IsInf(a) THEN (IF IsInf(b) THEN NaN
                           ELSE InfOf(Sign(a) * (IF b < 0 THEN 0 - 1 ELSE 1)))
    ELSE IF IsInf(b) THEN 0
    ELSE IF b = 0 THEN (IF a = 0 THEN NaN ELSE InfOf(Sign(a)))
    ELSE IF b > 0 THEN Overflow(Round(a * Scale, b))
    ELSE Overflow(0 - Round(a * Scale, 0 - b))

\* the float literal p / q
Lit(p, q) == Round(p * Scale, q)

\* glm::vec3 and its operators
vec3(x, y, z) == [x |-> x, y |-> y, z |-> z]
VAdd(a, b) == vec3(FAdd(a.x, b.x), FAdd(a.y, b.y), FAdd(a.z, b.z))
\* scalar * vec3
VScale(k, a) == vec3(FMul(k, a.x), FMul(k, a.y), FMul(k, a.z))
VFinite(a) == IsFinite(a.x) /\ IsFinite(a.y) /\ IsFinite(a.z)

----------------------------------------------------------------------------
(* LorenzSolver, include/lorenz_solver.h *)

\* state_{0.0f, 1.0f, 0.0f}
SeedState == vec3(0, Lit(1, 1), 0)

LorenzSolver(sigma, rho, beta) ==
    [sigma_ |-> sigma, rho_ |-> rho, beta_ |-> beta,
     state_ |-> SeedState, trajectory_ |-> <<SeedState>>]

setParameters(s, sigma, rho, beta) ==
    [s EXCEPT !.sigma_ = sigma, !.rho_ = rho, !.beta_ = beta]

\* setState that appends to the buffer instead of clearing it first
setState_noClear(s, x, y, z) ==
    [s EXCEPT !.state_ = vec3(x, y, z),
              !.trajectory_ = Append(s.trajectory_, vec3(x, y, z))]

setState(s, x, y, z) ==
    [s EXCEPT !.state_ = vec3(x, y, z), !.trajectory_ = <<vec3(x, y, z)>>]

derivatives(s, state) ==
    vec3(FMul(s.sigma_, FSub(state.y, state.x)),
         FSub(FMul(state.x, FSub(s.rho_, state.z)), state.y),
         FSub(FMul(state.x, state.y), FMul(s.beta_, state.z)))

\* the RK4 update with the third stage evaluated from k1 instead of k2
rk4_k3FromK1(s, dt) ==
    LET half == Lit(1, 2)
        two == Lit(2, 1)
        six == Lit(6, 1)
        k1 == derivatives(s, s.state_)
        k2 == derivatives(s, VAdd(s.state_, VScale(FMul(half, dt), k1)))
        k3 == derivatives(s, VAdd(s.state_, VScale(FMul(half, dt), k1)))
        k4 == derivatives(s, VAdd(s.state_, VScale(dt, k3)))
        sum == VAdd(VAdd(VAdd(k1, VScale(two, k2)), VScale(two, k3)), k4)
    IN  VAdd(s.state_, VScale(FDiv(dt, six), sum))

\* the position step(dt) computes: one RK4 iteration from state_
rk4(s, dt) ==
    LET half == Lit(1, 2)
        two == Lit(2, 1)
        six == Lit(6, 1)
        k1 == derivatives(s, s.state_)
        k2 == derivatives(s, VAdd(s.state_, VScale(FMul(half, dt), k1)))
        k3 == derivatives(s, VAdd(s.state_, VScale(FMul(half, dt), k2)))
        k4 == derivatives(s, VAdd(s.state_, VScale(dt, k3)))
        sum == VAdd(VAdd(VAdd(k1, VScale(two, k2)), VScale(two, k3)), k4)
    IN  VAdd(s.state_, VScale(FDiv(dt, six), sum))

\* step that evicts the oldest element once the buffer holds two
step_evicts(s, dt) ==
    LET pushed == Append(s.trajectory_, rk4(s, dt))
    IN  [s EXCEPT !.state_ = rk4(s, dt),
                  !.trajectory_ = IF Len(pushed) > 2 THEN Tail(pushed) ELSE pushed]

step(s, dt) ==
    [s EXCEPT !.state_ = rk4(s, dt),
              !.trajectory_ = Append(s.trajectory_, rk4(s, dt))]

getTrajectory(s) == s.trajectory_

getState(s) == s.state_

\* the number of elements erase() removes: size() - keep under the size check
EraseCount(s, keep) ==
    IF Len(s.trajectory_) > keep THEN Len(s.trajectory_) - keep ELSE 0

\* clearOldest that erases from the wrong end, keeping the oldest elements
clearOldest_keepsOldest(s, keep) ==
    IF Len(s.trajectory_) > keep
    THEN [s EXCEPT !.trajectory_ = SubSeq(s.trajectory_, 1, keep)]
    ELSE s

clearOldest(s, keep) ==
    IF Len(s.trajectory_) > keep
    THEN [s EXCEPT !.trajectory_ =
              SubSeq(s.trajectory_, EraseCount(s, keep) + 1, Len(s.trajectory_))]
    ELSE s

\* reset that clears the buffer and forgets to push the seed
reset_noPush(s) ==
    [s EXCEPT !.trajectory_ = <<>>, !.state_ = SeedState]

reset(s) ==
    [s EXCEPT !.trajectory_ = <<SeedState>>, !.state_ = SeedState]

----------------------------------------------------------------------------
(* Camera, src/camera.cpp *)

Camera(dist, yaw_deg, pitch_deg) ==
    [distance |-> dist, yaw |-> yaw_deg, pitch |-> pitch_deg,
     target |-> vec3(0, 0, Lit(25, 1)),
     fov |-> Lit(45, 1), near_plane |-> Lit(1, 10), far_plane |-> Lit(1000, 1),
     default_distance |-> dist, default_yaw |-> yaw_deg,
     default_pitch |-> pitch_deg,
     default_target |-> vec3(0, 0, Lit(25, 1))]

\* std::clamp(v, lo, hi)
clamp(v, lo, hi) == IF v < lo THEN lo ELSE IF hi < v THEN hi ELSE v

rotate(c, delta_yaw, delta_pitch) ==
    LET yaw1 == c.yaw + delta_yaw
        pitch1 == clamp(c.pitch + delta_pitch, 0 - Lit(89, 1), Lit(89, 1))
        yaw2 == IF yaw1 > Lit(360, 1) THEN yaw1 - Lit(360, 1) ELSE yaw1
        yaw3 == IF yaw2 < 0 THEN yaw2 + Lit(360, 1) ELSE yaw2
    IN  [c EXCEPT !.yaw = yaw3, !.pitch = pitch1]

zoom(c, delta) ==
    [c EXCEPT !.distance = clamp(c.distance + delta, Lit(5, 1), Lit(200, 1))]

\* The unit vectors pan() may compute for `right` and `up`.  right is
\* normalize(cross(forward, (0,0,1))), so it is horizontal; up is
\* cross(right, forward), orthogonal to right.  Their directions depend on the
\* sines and cosines of yaw and pitch, which this arithmetic does not give:
\* the direction is any axis direction that meets these constraints.
PanRight == {vec3(Lit(1, 1), 0, 0), vec3(0 - Lit(1, 1), 0, 0),
             vec3(0, Lit(1, 1), 0), vec3(0, 0 - Lit(1, 1), 0)}
PanUp(right) ==
    {u \in PanRight \cup {vec3(0, 0, Lit(1, 1)), vec3(0, 0, 0 - Lit(1, 1))} :
        FAdd(FAdd(FMul(u.x, right.x), FMul(u.y, right.y)), FMul(u.z, right.z)) = 0}

\* the cameras pan() may leave
pan(c, delta_x, delta_y) ==
    LET pan_speed == FMul(c.distance, Lit(1, 100))
        moved(right, up) ==
            VAdd(VAdd(c.target, VScale(pan_speed, VScale(delta_x, right))),
                 VScale(pan_speed, VScale(delta_y, up)))
    IN  UNION { { [c EXCEPT !.target = moved(right, up)] : up \in PanUp(right) } :
                right \in PanRight }

\* reset that restores the pose and forgets the target
camera_reset_keepsTarget(c) ==
    [c EXCEPT !.distance = c.default_distance, !.yaw = c.default_yaw,
              !.pitch = c.default_pitch]

camera_reset(c) ==
    [c EXCEPT !.distance = c.default_distance, !.yaw = c.default_yaw,
              !.pitch = c.default_pitch, !.target = c.default_target]

----------------------------------------------------------------------------
(* AppState, src/main.cpp *)

\* the AppState fields the frame loop and the callbacks read and write
AppState ==
    [running |-> FALSE, steps_per_frame |-> 1,
     sigma |-> Lit(10, 1), rho |-> Lit(28, 1), beta |-> Lit(8, 3),
     dt |-> Lit(1, 100), max_points |-> MaxPointsInit]

----------------------------------------------------------------------------
(* History *)

NoCall == [op |-> "none", a |-> <<>>]

\* the history after construction of solver s and camera c
Hist0(s, c, call) ==
    [call |-> call,          \* the last call on the solver or the camera
     pre |-> s,              \* the solver before that call
     preCam |-> c,           \* the camera before that call
     stepRun |-> 0,          \* consecutive step() calls up to now
     runBase |-> Len(s.trajectory_), \* trajectory length when they began
     emptied |-> FALSE,      \* clearOldest(0) was called since the last append
     ctor |-> <<c.distance, c.yaw, c.pitch>>, \* what Camera() was given
     frame |-> <<>>,         \* what this frame of main() did, in order
     uploaded |-> <<>>]      \* the trajectory the last render read

\* the history after call op(args) took the solver to s1
SolverCalled(op, args, s1) ==
    [hist EXCEPT !.call = [op |-> op, a |-> args],
                 !.pre = solver,
                 !.stepRun = IF op = "step" THEN @ + 1 ELSE 0,
                 !.runBase = IF op = "step" THEN @ ELSE Len(s1.trajectory_),
                 !.emptied = IF op \in {"step", "setState", "reset"} THEN FALSE
                             ELSE IF op = "clearOldest" /\ args[1] = 0 THEN TRUE
                             ELSE @]

CameraCalled(op, args) ==
    [hist EXCEPT !.call = [op |-> op, a |-> args], !.preCam = camera]

----------------------------------------------------------------------------
(* The solver under any sequence of calls of its public operations *)

\* coefficients handed to the constructor and to setParameters
ParamSet == {<<Lit(10, 1), Lit(28, 1), Lit(8, 3)>>,
             <<Lit(1, 1), Lit(2, 1), 0 - Lit(1, 2)>>}
\* positions handed to setState
SeedSet == {<<0, Lit(1, 1), 0>>, <<Lit(1, 1), 0 - Lit(2, 1), Lit(3, 1)>>,
            <<Lit(10, 1), Lit(20, 1), 0>>, <<Lit(40, 1), Lit(40, 1), 0>>}
\* step sizes handed to step
DtSet == {0, Lit(1, 100), 0 - Lit(5, 100)}

MainUnchanged == UNCHANGED <<g_state, pc, i, shouldClose, has_imgui>>

InitSolver ==
    /\ \E p \in ParamSet :
          /\ solver = LorenzSolver(p[1], p[2], p[3])
          /\ hist = Hist0(solver, Camera(Lit(60, 1), Lit(45, 1), Lit(20, 1)),
                          [op |-> "LorenzSolver", a |-> p])
    /\ camera = Camera(Lit(60, 1), Lit(45, 1), Lit(20, 1))
    /\ g_state = AppState
    /\ pc = "api"
    /\ i = 0
    /\ shouldClose = FALSE
    /\ has_imgui = FALSE
    /\ nsteps = 0
    /\ ncam = 0

CallSetParameters ==
    \E p \in ParamSet :
        /\ solver' = setParameters(solver, p[1], p[2], p[3])
        /\ hist' = SolverCalled("setParameters", p, solver')
        /\ UNCHANGED <<camera, nsteps, ncam>>
        /\ MainUnchanged

CallSetState ==
    \E p \in SeedSet :
        /\ solver' = setState(solver, p[1], p[2], p[3])
        /\ hist' = SolverCalled("setState", p, solver')
        /\ nsteps' = 0
        /\ UNCHANGED <<camera, ncam>>
        /\ MainUnchanged

CallStep ==
    \E dt \in DtSet :
        /\ nsteps < MaxSteps
        /\ solver' = step(solver, dt)
        /\ hist' = SolverCalled("step", <<dt>>, solver')
        /\ nsteps' = nsteps + 1
        /\ UNCHANGED <<camera, ncam>>
        /\ MainUnchanged

CallClearOldest ==
    \E keep \in 0 .. MaxKeep :
        /\ solver' = clearOldest(solver, keep)
        /\ hist' = SolverCalled("clearOldest", <<keep>>, solver')
        /\ UNCHANGED <<camera, nsteps, ncam>>
        /\ MainUnchanged

CallReset ==
    /\ solver' = reset(solver)
    /\ hist' = SolverCalled("reset", <<>>, solver')
    /\ nsteps' = 0
    /\ UNCHANGED <<camera, ncam>>
    /\ MainUnchanged

NextSolver ==
    \/ CallSetParameters
    \/ CallSetState
    \/ CallStep
    \/ CallClearOldest
    \/ CallReset

SpecSolver == InitSolver /\ [][NextSolver]_vars

----------------------------------------------------------------------------
(* The camera under any sequence of calls of rotate, zoom, pan and reset *)

\* (dist, yaw_deg, pitch_deg) handed to the constructor; the first is the
\* constructor's default
CtorSet == {<<Lit(60, 1), Lit(45, 1), Lit(20, 1)>>,
            <<Lit(10, 1), Lit(350, 1), 0 - Lit(80, 1)>>}
YawDeltas == {0 - Lit(400, 1), Lit(315, 1), Lit(800, 1)}
PitchDeltas == {0 - Lit(200, 1), 0, Lit(69, 1)}
ZoomDeltas == {0 - Lit(3, 1), Lit(300, 1)}
PanDeltas == {<<Lit(10, 1), 0>>, <<0, 0 - Lit(10, 1)>>}

InitCamera ==
    /\ \E c \in CtorSet : camera = Camera(c[1], c[2], c[3])
    /\ solver = LorenzSolver(AppState.sigma, AppState.rho, AppState.beta)
    /\ hist = Hist0(solver, camera, [op |-> "Camera", a |-> <<>>])
    /\ g_state = AppState
    /\ pc = "api"
    /\ i = 0
    /\ shouldClose = FALSE
    /\ has_imgui = FALSE
    /\ nsteps = 0
    /\ ncam = 0

CallRotate ==
    \E dy \in YawDeltas, dp \in PitchDeltas :
        /\ ncam < MaxCamOps
        /\ camera' = rotate(camera, dy, dp)
        /\ hist' = CameraCalled("rotate", <<dy, dp>>)
        /\ ncam' = ncam + 1
        /\ UNCHANGED <<solver, nsteps>>
        /\ MainUnchanged

CallZoom ==
    \E d \in ZoomDeltas :
        /\ ncam < MaxCamOps
        /\ camera' = zoom(camera, d)
        /\ hist' = CameraCalled("zoom", <<d>>)
        /\ ncam' = ncam + 1
        /\ UNCHANGED <<solver, nsteps>>
        /\ MainUnchanged

CallPan ==
    \E d \in PanDeltas :
        /\ ncam < MaxCamOps
        /\ camera' \in pan(camera, d[1], d[2])
        /\ hist' = CameraCalled("pan", d)
        /\ ncam' = ncam + 1
        /\ UNCHANGED <<solver, nsteps>>
        /\ MainUnchanged

CallCameraReset ==
    /\ camera' = camera_reset(camera)
    /\ hist' = CameraCalled("reset", <<>>)
    /\ UNCHANGED <<solver, nsteps, ncam>>
    /\ MainUnchanged

NextCamera ==
    \/ CallRotate
    \/ CallZoom
    \/ CallPan
    \/ CallCameraReset

SpecCamera == InitCamera /\ [][NextCamera]_vars

----------------------------------------------------------------------------
(* main(): the frame loop with the key callback and the GUI panel *)

\* values the GUI sliders may be dragged to
SigmaSlider == {Lit(10, 1), Lit(20, 1)}
RhoSlider == {Lit(28, 1), Lit(40, 1)}
BetaSlider == {Lit(8, 3), Lit(1, 1)}
DtSlider == {Lit(1, 100), Lit(5, 100)}
StepsSlider == 1 .. StepsPerFrameHi
MaxPointsSlider == MaxPointsLo .. MaxPointsHi

Keys == {"SPACE", "R", "ESCAPE", "OTHER"}
KeyActions == {"PRESS", "REPEAT", "RELEASE"}

\* main() up to the loop: the solver is built from the application state's
\* coefficients and seeded with (0, 1, 0)
Init ==
    /\ g_state = AppState
    /\ camera = Camera(Lit(60, 1), Lit(45, 1), Lit(20, 1))
    /\ solver = setState(LorenzSolver(g_state.sigma, g_state.rho, g_state.beta),
                         0, Lit(1, 1), 0)
    /\ hist = Hist0(solver, camera, NoCall)
    /\ pc = "while"
    /\ i = 0
    /\ shouldClose = FALSE
    /\ has_imgui \in BOOLEAN
    /\ nsteps = 0
    /\ ncam = 0

\* while (!glfwWindowShouldClose(window))
WhileTest ==
    /\ pc = "while"
    /\ pc' = IF shouldClose THEN "done" ELSE "poll"
    /\ hist' = [hist EXCEPT !.frame = <<>>]
    /\ UNCHANGED <<solver, camera, g_state, i, shouldClose, has_imgui, nsteps, ncam>>

\* key_callback, dispatched by glfwPollEvents
KeyCallback ==
    /\ pc = "poll"
    /\ \E key \in Keys, action \in KeyActions :
          /\ g_state' = IF action = "PRESS" /\ key = "SPACE"
                        THEN [g_state EXCEPT !.running = ~g_state.running]
                        ELSE g_state
          /\ camera' = IF action = "PRESS" /\ key = "R"
                       THEN camera_reset(camera)
                       ELSE camera
          /\ shouldClose' = IF action = "PRESS" /\ key = "ESCAPE"
                            THEN TRUE
                            ELSE shouldClose
    /\ UNCHANGED <<solver, pc, i, has_imgui, nsteps, ncam, hist>>

\* glfwPollEvents returns; the update loop starts with i = 0
PollReturn ==
    /\ pc = "poll"
    /\ pc' = "update"
    /\ i' = 0
    /\ hist' = [hist EXCEPT !.frame = Append(@, "poll")]
    /\ UNCHANGED <<solver, camera, g_state, shouldClose, has_imgui, nsteps, ncam>>

\* a loop body that evicts before it steps
loop_body_clearFirst(s, g) ==
    IF Len(getTrajectory(s)) + 1 > g.max_points
    THEN [solver |-> step(clearOldest(s, g.max_points), g.dt),
          calls |-> <<"clearOldest", "step">>]
    ELSE [solver |-> step(s, g.dt), calls |-> <<"step">>]

\* one pass of the update loop's body on solver s under application state g:
\* the solver it leaves and the solver calls it makes
loop_body(s, g) ==
    LET s1 == step(s, g.dt)
    IN  IF Len(getTrajectory(s1)) > g.max_points
        THEN [solver |-> clearOldest(s1, g.max_points),
              calls |-> <<"step", "clearOldest">>]
        ELSE [solver |-> s1, calls |-> <<"step">>]

\* if (g_state.running) for (i < steps_per_frame): one iteration
UpdateIter ==
    /\ pc = "update"
    /\ g_state.running
    /\ i < g_state.steps_per_frame
    /\ nsteps < MaxSteps
    /\ solver' = loop_body(solver, g_state).solver
    /\ hist' = [hist EXCEPT !.frame = @ \o loop_body(solver, g_state).calls]
    /\ i' = i + 1
    /\ nsteps' = nsteps + 1
    /\ UNCHANGED <<camera, g_state, pc, shouldClose, has_imgui, ncam>>

\* the update is over: not running, or the loop's test fails
UpdateExit ==
    /\ pc = "update"
    /\ ~g_state.running \/ ~(i < g_state.steps_per_frame)
    /\ pc' = "render"
    /\ UNCHANGED <<solver, camera, g_state, i, shouldClose, has_imgui, nsteps, ncam, hist>>

\* the render stage reads the trajectory and uploads it to the vertex buffer
Render ==
    /\ pc = "render"
    /\ hist' = [hist EXCEPT !.frame = Append(@, "render"),
                            !.uploaded = getTrajectory(solver)]
    /\ pc' = "gui"
    /\ UNCHANGED <<solver, camera, g_state, i, shouldClose, has_imgui, nsteps, ncam>>

\* the application states render_gui may leave: at most one widget is
\* operated in a frame
GuiWrites(g) ==
    {g, [g EXCEPT !.running = ~g.running]}
    \cup {[g EXCEPT !.steps_per_frame = v] : v \in StepsSlider}
    \cup {[g EXCEPT !.sigma = v] : v \in SigmaSlider}
    \cup {[g EXCEPT !.rho = v] : v \in RhoSlider}
    \cup {[g EXCEPT !.beta = v] : v \in BetaSlider}
    \cup {[g EXCEPT !.dt = v] : v \in DtSlider}
    \cup {[g EXCEPT !.max_points = v] : v \in MaxPointsSlider}

\* render_gui, then the buffer swap; the frame is over
RenderGui ==
    /\ pc = "gui"
    /\ IF has_imgui
       THEN \/ /\ g_state' \in GuiWrites(g_state)
               /\ camera' = camera
            \/ /\ camera' = camera_reset(camera)
               /\ g_state' = g_state
       ELSE UNCHANGED <<g_state, camera>>
    /\ pc' = "while"
    /\ UNCHANGED <<solver, i, shouldClose, has_imgui, nsteps, ncam, hist>>

Next ==
    \/ WhileTest
    \/ KeyCallback
    \/ PollReturn
    \/ UpdateIter
    \/ UpdateExit
    \/ Render
    \/ RenderGui

Spec == Init /\ [][Next]_vars

----------------------------------------------------------------------------
(* Properties of the solver, checked under SpecSolver *)

LastCall == hist.call
Traj == solver.trajectory_
OldTraj == hist.pre.trajectory_

\* C1: clearOldest(keep) leaves exactly min(keep, previous length) elements,
\* the most recent ones of the previous trajectory in their order; it changes
\* nothing when keep >= previous length, empties the trajectory when keep = 0,
\* and the range it erases lies inside the buffer.
C1_ClearOldestKeepsNewest ==
    LastCall.op = "clearOldest" =>
        LET keep == LastCall.a[1]
            n == Min(keep, Len(OldTraj))
        IN  /\ Len(Traj) = n
            /\ \A j \in 1 .. n : Traj[j] = OldTraj[Len(OldTraj) - n + j]
            /\ (keep >= Len(OldTraj) => Traj = OldTraj)
            /\ (keep = 0 => Traj = <<>>)
            /\ EraseCount(hist.pre, keep) \in 0 .. Len(OldTraj)
            /\ solver.state_ = hist.pre.state_

\* a clearOldest(2) that cut a trajectory of four distinct-ended points
C1_Witness ==
    /\ LastCall.op = "clearOldest"
    /\ LastCall.a[1] = 2
    /\ Len(OldTraj) = 4
    /\ OldTraj[1] # OldTraj[3]
    /\ OldTraj[3] # OldTraj[4]

\* C3 as stated: the trajectory is never empty and ends with the current position.
C3_LastIsPosition ==
    /\ Len(Traj) > 0
    /\ Traj[Len(Traj)] = getState(solver)

\* C3 amended: the trajectory is non-empty and ends with the current position
\* after construction and after every call except clearOldest(0), which leaves
\* it empty until the next step, setState or reset.
C3_LastIsPositionUnlessEmptied ==
    IF hist.emptied
    THEN Traj = <<>>
    ELSE Len(Traj) > 0 /\ Traj[Len(Traj)] = getState(solver)

\* a clearOldest(1) that cut a longer trajectory down to the current position
C3_Witness ==
    /\ LastCall.op = "clearOldest"
    /\ LastCall.a[1] = 1
    /\ Len(OldTraj) >= 3
    /\ ~hist.emptied
    /\ OldTraj[1] # OldTraj[Len(OldTraj)]

\* The position the RK4 formula gives from position p with coefficients
\* sg, rh, bt and step size dt, component by component.
RK4Formula(p, sg, rh, bt, dt) ==
    LET fx(x, y, z) == FMul(sg, FSub(y, x))
        fy(x, y, z) == FSub(FMul(x, FSub(rh, z)), y)
        fz(x, y, z) == FSub(FMul(x, y), FMul(bt, z))
        h == FMul(Lit(1, 2), dt)
        w == FDiv(dt, Lit(6, 1))
        k1x == fx(p.x, p.y, p.z)
        k1y == fy(p.x, p.y, p.z)
        k1z == fz(p.x, p.y, p.z)
        ax == FAdd(p.x, FMul(h, k1x))
        ay == FAdd(p.y, FMul(h, k1y))
        az == FAdd(p.z, FMul(h, k1z))
        k2x == fx(ax, ay, az)
        k2y == fy(ax, ay, az)
        k2z == fz(ax, ay, az)
        bx == FAdd(p.x, FMul(h, k2x))
        by == FAdd(p.y, FMul(h, k2y))
        bz == FAdd(p.z, FMul(h, k2z))
        k3x == fx(bx, by, bz)
        k3y == fy(bx, by, bz)
        k3z == fz(bx, by, bz)
        cx == FAdd(p.x, FMul(dt, k3x))
        cy == FAdd(p.y, FMul(dt, k3y))
        cz == FAdd(p.z, FMul(dt, k3z))
        k4x == fx(cx, cy, cz)
        k4y == fy(cx, cy, cz)
        k4z == fz(cx, cy, cz)
        two == Lit(2, 1)
        sx == FAdd(FAdd(FAdd(k1x, FMul(two, k2x)), FMul(two, k3x)), k4x)
        sy == FAdd(FAdd(FAdd(k1y, FMul(two, k2y)), FMul(two, k3y)), k4y)
        sz == FAdd(FAdd(FAdd(k1z, FMul(two, k2z)), FMul(two, k3z)), k4z)
    IN  [x |-> FAdd(p.x, FMul(w, sx)),
         y |-> FAdd(p.y, FMul(w, sy)),
         z |-> FAdd(p.z, FMul(w, sz))]

\* the last call was step(dt) and the position is what the RK4 formula gives
\* from the position and the coefficients the solver held at the call
StepFollowsFormula ==
    LastCall.op = "step" =>
        getState(solver) = RK4Formula(hist.pre.state_, hist.pre.sigma_,
                                      hist.pre.rho_, hist.pre.beta_, LastCall.a[1])

\* 6 * f(p), summed as step sums its stages when dt = 0, is finite
StagesFinite(s) ==
    LET k == derivatives(s, s.state_)
        two == Lit(2, 1)
    IN  /\ VFinite(k)
        /\ VFinite(VAdd(VAdd(VAdd(k, VScale(two, k)), VScale(two, k)), k))

\* C6 as stated: step(dt) moves the position as the RK4 formula says, with
\* one set of coefficients in all four stages, and step(0) leaves the
\* position unchanged.
C6_StepIsRK4 ==
    /\ StepFollowsFormula
    /\ (LastCall.op = "step" /\ LastCall.a[1] = 0 =>
            getState(solver) = hist.pre.state_)

\* C6 amended: step(dt) moves the position as the RK4 formula says, in float
\* arithmetic, with one set of coefficients in all four stages; step(0) leaves
\* the position unchanged when the stage derivatives and their weighted sum
\* are finite.
C6_StepIsRK4WhenFinite ==
    /\ StepFollowsFormula
    /\ (LastCall.op = "step" /\ LastCall.a[1] = 0 /\ StagesFinite(hist.pre) =>
            getState(solver) = hist.pre.state_)

\* a step with dt # 0, after an earlier step, that moved the position to a
\* finite point
C6_Witness ==
    /\ LastCall.op = "step"
    /\ LastCall.a[1] # 0
    /\ hist.stepRun >= 2
    /\ getState(solver) # hist.pre.state_
    /\ VFinite(getState(solver))

\* C7: step appends exactly one element, the new position, and leaves the
\* earlier elements as they were, so N consecutive steps take a trajectory of
\* length L to length L + N.
C7_StepAppendsOne ==
    /\ LastCall.op = "step" =>
          /\ Traj = Append(OldTraj, getState(solver))
          /\ Len(Traj) = Len(OldTraj) + 1
    /\ hist.stepRun > 0 => Len(Traj) = hist.runBase + hist.stepRun

\* consecutive steps on a trajectory that began with two elements or more
C7_Witness ==
    /\ LastCall.op = "step"
    /\ hist.stepRun >= 2
    /\ hist.runBase >= 2
    /\ Len(Traj) >= 4

\* C8: setState(x, y, z) makes the position (x, y, z) and the trajectory the
\* one-element sequence of it; reset() does what setState(0, 1, 0) does;
\* neither changes sigma, rho or beta.
C8_SetStateAndReset ==
    /\ LastCall.op = "setState" =>
          LET v == vec3(LastCall.a[1], LastCall.a[2], LastCall.a[3])
          IN  /\ getState(solver) = v
              /\ getTrajectory(solver) = <<v>>
              /\ solver.sigma_ = hist.pre.sigma_
              /\ solver.rho_ = hist.pre.rho_
              /\ solver.beta_ = hist.pre.beta_
    /\ LastCall.op = "reset" =>
          /\ solver = setState(hist.pre, 0, Lit(1, 1), 0)
          /\ getState(solver) = vec3(0, Lit(1, 1), 0)
          /\ Len(getTrajectory(solver)) = 1
          /\ solver.sigma_ = hist.pre.sigma_
          /\ solver.rho_ = hist.pre.rho_
          /\ solver.beta_ = hist.pre.beta_

\* a setState on a solver that had stepped away from the seed
C8_Witness ==
    /\ LastCall.op = "setState"
    /\ Len(OldTraj) >= 3
    /\ hist.pre.state_ # vec3(LastCall.a[1], LastCall.a[2], LastCall.a[3])
    /\ hist.pre.state_ # SeedState

----------------------------------------------------------------------------
(* Properties of the camera, checked under SpecCamera *)

\* C5: after any sequence of rotate calls pitch is in [-89, 89] and yaw is in
\* [0, 360).
C5_YawPitchInRange ==
    /\ 0 - Lit(89, 1) <= camera.pitch
    /\ camera.pitch <= Lit(89, 1)
    /\ 0 <= camera.yaw
    /\ camera.yaw < Lit(360, 1)

\* C9: reset() restores distance, yaw, pitch and target to what the
\* constructor was given (target (0,0,25)) and leaves fov, near_plane and
\* far_plane as they were; no call changes the stored defaults.
C9_ResetRestoresDefaults ==
    /\ camera.default_distance = hist.ctor[1]
    /\ camera.default_yaw = hist.ctor[2]
    /\ camera.default_pitch = hist.ctor[3]
    /\ camera.default_target = vec3(0, 0, Lit(25, 1))
    /\ LastCall.op = "reset" =>
          /\ camera.distance = hist.ctor[1]
          /\ camera.yaw = hist.ctor[2]
          /\ camera.pitch = hist.ctor[3]
          /\ camera.target = vec3(0, 0, Lit(25, 1))
          /\ camera.fov = hist.preCam.fov
          /\ camera.near_plane = hist.preCam.near_plane
          /\ camera.far_plane = hist.preCam.far_plane

\* a reset of a camera whose distance, yaw, pitch and target had all moved
C9_Witness ==
    /\ LastCall.op = "reset"
    /\ hist.preCam.distance # hist.ctor[1]
    /\ hist.preCam.yaw # hist.ctor[2]
    /\ hist.preCam.pitch # hist.ctor[3]
    /\ hist.preCam.target # vec3(0, 0, Lit(25, 1))

----------------------------------------------------------------------------
(* Properties of the frame loop, checked under Spec *)

Frame == hist.frame
Count(f, c) == Cardinality({j \in 1 .. Len(f) : f[j] = c})

\* C2: in every frame the trajectory the render stage has read for upload is
\* no longer than the current max_points.
C2_RenderWithinMaxPoints ==
    pc = "gui" => Len(hist.uploaded) <= g_state.max_points

\* C4: at every step() call of the frame loop the solver's coefficients are
\* the application state's current sigma, rho and beta.
C4_StepUsesCurrentParameters ==
    (pc = "update" /\ g_state.running /\ i < g_state.steps_per_frame) =>
        /\ solver.sigma_ = g_state.sigma
        /\ solver.rho_ = g_state.rho
        /\ solver.beta_ = g_state.beta

\* what C10 and its amendment share: the frame polls first and once, reads
\* for render last, makes all steps-per-frame steps when running and no solver
\* call when not
FrameOrder ==
    /\ \A j \in 1 .. Len(Frame) : (Frame[j] = "poll") <=> (j = 1)
    /\ \A j \in 1 .. Len(Frame) : Frame[j] = "render" => j = Len(Frame)
    /\ pc = "update" => Count(Frame, "step") = i /\ i <= g_state.steps_per_frame
    /\ (pc = "render" /\ g_state.running) =>
          Count(Frame, "step") = g_state.steps_per_frame
    /\ (pc = "render" /\ ~g_state.running) => Frame = <<"poll">>

\* C10 as stated: poll, then the steps, then at most one clearOldest, then the
\* render read; clearOldest never runs between two steps of a frame.
C10_OneClearAfterAllSteps ==
    /\ FrameOrder
    /\ Count(Frame, "clearOldest") <= 1
    /\ \A j, k \in 1 .. Len(Frame) :
          (j < k /\ Frame[j] = "clearOldest") => Frame[k] # "step"

\* C10 amended: poll, then (only if running) steps-per-frame iterations, each
\* one step() followed by at most one clearOldest, then the render read; every
\* clearOldest directly follows a step(), so there is at most one per step().
C10_ClearFollowsEachStep ==
    /\ FrameOrder
    /\ \A j \in 1 .. Len(Frame) :
          Frame[j] = "clearOldest" => (j > 1 /\ Frame[j - 1] = "step")
    /\ Count(Frame, "clearOldest") <= Count(Frame, "step")

\* a frame about to render after two steps, each followed by a clearOldest
C10_Witness ==
    /\ pc = "render"
    /\ Frame = <<"poll", "step", "clearOldest", "step", "clearOldest">>

====
